---------------------------- MODULE Spec2Model ----------------------------
(***************************************************************************)
(* l2met: the distributed outlet loop (lib/l2met/outlet.rb), the internal  *)
(* metrics channel (metchan/metchan.go) and the auth resolver (ParseAuth). *)
(*                                                                         *)
(* Times are in seconds.  The outlet fleet, the metrics channel and the    *)
(* resolver are separate programs: SpecOutlet runs the first, SpecChan the *)
(* second, SpecAuth the third.                                             *)
(***************************************************************************)
EXTENDS Integers, Sequences, FiniteSets, TLC

(***************************************************************************)
(* Bounds of the model.                                                    *)
(***************************************************************************)
NumWorkers == 2
NumOutlets == 2
MaxTime == 120
Step == 60
MaxRecs == 3
FleetRecs == 1
NumCallers == 2
MaxObs == 3
MaxClock == 120
LongClock == 660
LongObs == 2

(***************************************************************************)
(* Program constants.  ZeroTime stands for the zero time.Time (year 1),    *)
(* which lies before every reading of the wall clock.                      *)
(***************************************************************************)
DELAY == 60
TTL == 60
BucketWidth == 60
FlushInterval == 60
OutboxCap == 10
ZeroTime == -1

Workers == 1..NumWorkers
Partitions == 0..(NumOutlets - 1)
NoWorker == 0

VARIABLES
  now,      \* the wall clock the workers and the lease service read
  store,    \* the sample store: a set of records, one per key
  lease,    \* lease service: partition -> [holder, exp]
  pc,       \* worker -> position in Outlet.start / Outlet.snapshot
  part,     \* worker -> the partition p of the current loop iteration
  bucket,   \* worker -> the target bucket of the current snapshot
  groups,   \* worker -> tenant groups still to process, in iteration order
  trace,    \* worker -> what the current snapshot did, in order
  ntenants, \* worker -> number of tenant groups of the current snapshot
  fails,    \* worker -> tenants of the current snapshot that hit a failing step
  empties,  \* worker -> tenants of the current snapshot whose batch was empty
  ran       \* (partition, bucket) pairs for which a snapshot has been started

outletVars == <<now, store, lease, pc, part, bucket, groups, trace,
                ntenants, fails, empties, ran>>

VARIABLES
  clock,     \* the wall clock of the process that owns the channel
  Enabled,   \* Channel.Enabled
  started,   \* Start has been called
  startAt,   \* when the flush ticker was created
  tickReady, \* the ticker's channel holds a tick
  mu,        \* the Channel's mutex: the goroutine that holds it, or NoHolder
  Buffer,    \* Channel.Buffer: key -> bucket
  outbox,    \* Channel.outbox, a channel of capacity OutboxCap
  cpc,       \* caller goroutine -> "idle", "lock" (at c.Lock) or "locked"
  cid,       \* caller goroutine -> the bucket.Id of its add
  cval,      \* caller goroutine -> the value of its add
  fpc,       \* flush goroutine: "off", "wait", "lock", "send"
  ftodo,     \* keys the range loop of flush has still to visit
  fsent,     \* keys the current flush has sent, in order
  ppc,       \* poster goroutine: "off", "recv", "post", "exit"
  pitem,     \* the item the poster took from the outbox
  ncalls,    \* number of Measure/Time/CountReq calls made
  nenq,      \* number of items put on the outbox
  nposts,    \* number of POST attempts made
  perr,      \* the last POST attempt failed and its error was printed
  cur,       \* key -> the window of its latest add and the values added in it
  unflushed, \* key -> values of the bucket, recorded by the enabled and started
             \* channel, that no emitted metric covers yet
  lost,      \* such values discarded before any emitted metric covered them
  emitted    \* key -> window and Count of its latest emitted metric, and
             \* whether the one before was of the same window

chanVars == <<clock, Enabled, started, startAt, tickReady, mu, Buffer, outbox,
              cpc, cid, cval, fpc, ftodo, fsent, ppc, pitem, ncalls, nenq,
              nposts, perr, cur, unflushed, lost, emitted>>

VARIABLES
  header,    \* r.Header["Authorization"]: the list of its values, or NoHeader
  keysOk,    \* SECRETS holds the key the tokens of the model are signed with
  apc,       \* position in ParseAuth
  auth,      \* strings.SplitN(header[0], " ", 2)
  userPass,  \* the decoded credentials
  parts,     \* strings.Split(string(userPass), ":")
  ruser,     \* result user
  rpass,     \* result pass
  err,       \* result err
  verified   \* fernet.VerifyAndDecrypt has been called

authVars == <<header, keysOk, apc, auth, userPass, parts, ruser, rpass, err,
              verified>>

vars == <<outletVars, chanVars, authVars>>

---------------------------------------------------------------------------
(***************************************************************************)
(* The sample store.  A key is prefix:bucket:uuid; the record is the hash  *)
(* stored under the key.  Field values are strings, as redis returns them. *)
(***************************************************************************)
Rec(pre, b, u, c, n, t, v) ==
  [prefix |-> pre, bucket |-> b, uuid |-> u, consumer |-> c, name |-> n,
   type |-> t, value |-> v, source |-> "src." \o u, label |-> "lbl." \o n]

Samples ==
  { Rec("0", 0, "u1", "c1", "hits", "counter", "1"),
    Rec("0", 0, "u2", "c1", "hits", "counter", "2"),
    Rec("2", 0, "u3", "c1", "temp", "last",    "abc"),
    Rec("2", 0, "u4", "c2", "temp", "last",    "3"),
    Rec("1", 0, "u5", "c2", "odd",  "weird",   "1"),
    Rec("4", 0, "u6", "c3", "hits", "counter", "2"),
    Rec("x", 0, "u7", "c3", "hits", "counter", "1"),
    Rec("3", 60, "u8", "c1", "hits", "counter", "abc"),
    Rec("3", 0, "u9", "c3", "load", "last",    "1"),
    Rec("3", 0, "u10", "c3", "load", "last",   "2") }

\* Kernel#Integer on the strings the store holds: a value, or it raises.
IntegerOk(s) == s \in {"0", "1", "2", "3", "4"}
IntegerOf(s) ==
  CASE s = "0" -> 0 [] s = "1" -> 1 [] s = "2" -> 2 [] s = "3" -> 3
    [] s = "4" -> 4

\* Kernel#Float on the strings the store holds: a value, or it raises.
FloatOk(s) == s \in {"1", "2", "3"}
FloatOf(s) == CASE s = "1" -> 1 [] s = "2" -> 2 [] s = "3" -> 3

TruncTime(t) == (t \div BucketWidth) * BucketWidth

---------------------------------------------------------------------------
(***************************************************************************)
(* Sequence helpers.                                                       *)
(***************************************************************************)
Range(s) == {s[i] : i \in DOMAIN s}

Perms(S) ==
  {f \in [1..Cardinality(S) -> S] : \A i, j \in DOMAIN f : i # j => f[i] # f[j]}

RECURSIVE FirstKeys(_, _)
\* The distinct values of key(s[i]) in order of first appearance.
FirstKeys(ks, seen) ==
  IF ks = <<>> THEN <<>>
  ELSE IF Head(ks) \in seen THEN FirstKeys(Tail(ks), seen)
  ELSE <<Head(ks)>> \o FirstKeys(Tail(ks), seen \cup {Head(ks)})

RECURSIVE SumSeq(_)
SumSeq(s) == IF s = <<>> THEN 0 ELSE Head(s) + SumSeq(Tail(s))

RECURSIVE Flatten(_)
Flatten(ss) == IF ss = <<>> THEN <<>> ELSE Head(ss) \o Flatten(Tail(ss))


---------------------------------------------------------------------------
(***************************************************************************)
(* Outlet.aggregate: group the tenant's records by mkey and reduce each    *)
(* group by the type of a representative.  rep[k] is the record that       *)
(* metrics.sample returns for group k.  The result is either a raise (a    *)
(* Float() that fails) or the flattened, compacted list of outputs.        *)
(* Samples of type "list" go to L2met::Stats and are not in the store of   *)
(* this model.                                                             *)
(***************************************************************************)
MKeys(metrics) == FirstKeys([i \in DOMAIN metrics |-> metrics[i].prefix], {})

GroupOf(metrics, k) == SelectSeq(metrics, LAMBDA m : m.prefix = k)

Output(b, s, suffix, val) ==
  [name |-> s.name \o suffix, value |-> val, source |-> s.source,
   label |-> s.label, measure_time |-> b]

AggGroupTakesFirst(b, grp, s) ==
  CASE s.type = "counter" ->
         IF \A i \in DOMAIN grp : FloatOk(grp[i].value)
         THEN [raise |-> FALSE,
               out |-> <<Output(b, s, ".count",
                          SumSeq([i \in DOMAIN grp |-> FloatOf(grp[i].value)]))>>]
         ELSE [raise |-> TRUE, out |-> <<>>]
    [] s.type = "last" ->
         IF FloatOk(grp[1].value)
         THEN [raise |-> FALSE,
               out |-> <<Output(b, s, ".last", FloatOf(grp[1].value))>>]
         ELSE [raise |-> TRUE, out |-> <<>>]
    [] OTHER -> [raise |-> FALSE, out |-> <<>>]

AggGroup(b, grp, s) ==
  CASE s.type = "counter" ->
         IF \A i \in DOMAIN grp : FloatOk(grp[i].value)
         THEN [raise |-> FALSE,
               out |-> <<Output(b, s, ".count",
                          SumSeq([i \in DOMAIN grp |-> FloatOf(grp[i].value)]))>>]
         ELSE [raise |-> TRUE, out |-> <<>>]
    [] s.type = "last" ->
         IF FloatOk(grp[Len(grp)].value)
         THEN [raise |-> FALSE,
               out |-> <<Output(b, s, ".last", FloatOf(grp[Len(grp)].value))>>]
         ELSE [raise |-> TRUE, out |-> <<>>]
    [] OTHER -> [raise |-> FALSE, out |-> <<>>]

Aggregate(b, metrics, rep) ==
  LET ks == MKeys(metrics)
      rs == [i \in DOMAIN ks |-> AggGroup(b, GroupOf(metrics, ks[i]), rep[ks[i]])]
  IN  [raise |-> \E i \in DOMAIN rs : rs[i].raise,
       out   |-> Flatten([i \in DOMAIN rs |-> rs[i].out])]

\* The choices metrics.sample can make: one record of each group.
RepChoices(metrics) ==
  {f \in [Range(MKeys(metrics)) -> Range(metrics)] :
     \A k \in DOMAIN f : f[k].prefix = k}

(***************************************************************************)
(* The body of the per-tenant block of Outlet.snapshot.  lookupOk and      *)
(* submitOk are what the consumer directory and the Librato API do.  The   *)
(* result is the events the block produced and whether an exception        *)
(* left the block.                                                         *)
(***************************************************************************)
Event(e, c, batch) == [ev |-> e, consumer |-> c, batch |-> batch]

RescuePropagates(c, evs) == [events |-> evs, raised |-> TRUE]

Rescue(c, evs) ==
  [events |-> evs \o <<Event("error", c, <<>>)>>, raised |-> FALSE]

ProcessTenantSubmitsFirst(c, metrics, b, lookupOk, submitOk, rep) ==
  IF ~lookupOk THEN Rescue(c, <<>>)
  ELSE LET a == Aggregate(b, metrics, rep) IN
    IF a.raise THEN Rescue(c, <<>>)
    ELSE IF submitOk
      THEN [events |-> <<Event("submit", c, a.out), Event("count", c, a.out)>>,
            raised |-> FALSE]
      ELSE Rescue(c, <<>>)

ProcessTenant(c, metrics, b, lookupOk, submitOk, rep) ==
  IF ~lookupOk THEN Rescue(c, <<>>)
  ELSE LET a == Aggregate(b, metrics, rep) IN
    IF a.raise THEN Rescue(c, <<>>)
    ELSE IF Len(a.out) > 0
      THEN IF submitOk
           THEN [events |-> <<Event("count", c, a.out), Event("submit", c, a.out)>>,
                 raised |-> FALSE]
           ELSE Rescue(c, <<Event("count", c, a.out)>>)
      ELSE [events |-> <<>>, raised |-> FALSE]

---------------------------------------------------------------------------
(***************************************************************************)
(* The lease service (Locksmith::Dynamodb), as the specification gives     *)
(* it: a lease is free when nobody holds it or its TTL has run out.        *)
(***************************************************************************)
NoLease == [holder |-> NoWorker, exp |-> 0]

LeaseFree(p) == lease[p].holder = NoWorker \/ now >= lease[p].exp

Holds(w, p) == lease[p].holder = w /\ now < lease[p].exp

Acquire(w, p) == [lease EXCEPT ![p] = [holder |-> w, exp |-> now + TTL]]

Release(w, p) ==
  IF lease[p].holder = w THEN [lease EXCEPT ![p] = NoLease] ELSE lease

NextPart(p) == (p + 1) % NumOutlets

---------------------------------------------------------------------------
(***************************************************************************)
(* Outlet.start and Outlet.snapshot, one worker w.                         *)
(***************************************************************************)
StoreChoices(n) == {S \in SUBSET Samples : Cardinality(S) <= n}

InitWorkers ==
  /\ lease = [p \in Partitions |-> NoLease]
  /\ pc = [w \in Workers |-> "loop"]
  /\ part = [w \in Workers |-> 0]
  /\ bucket = [w \in Workers |-> 0]
  /\ groups = [w \in Workers |-> <<>>]
  /\ trace = [w \in Workers |-> <<>>]
  /\ ntenants = [w \in Workers |-> 0]
  /\ fails = [w \in Workers |-> {}]
  /\ empties = [w \in Workers |-> {}]
  /\ ran = {}

\* locker.lock(...) with the lease free: the block is entered.
LockAcquire(w) ==
  /\ pc[w] = "loop"
  /\ LeaseFree(part[w])
  /\ lease' = Acquire(w, part[w])
  /\ pc' = [pc EXCEPT ![w] = "locked"]
  /\ UNCHANGED <<now, store, part, bucket, groups, trace, ntenants, fails,
                 empties, ran>>
  /\ UNCHANGED <<chanVars, authVars>>

LockWaits(w) ==
  /\ pc[w] = "loop"
  /\ ~LeaseFree(part[w])
  /\ pc' = [pc EXCEPT ![w] = "wait"]
  /\ UNCHANGED <<now, store, lease, part, bucket, groups, trace, ntenants,
                 fails, empties, ran>>
  /\ UNCHANGED <<chanVars, authVars>>

\* locker.lock(...) with the lease held elsewhere: the partition is skipped.
LockSkip(w) ==
  /\ pc[w] = "loop"
  /\ ~LeaseFree(part[w])
  /\ part' = [part EXCEPT ![w] = NextPart(part[w])]
  /\ UNCHANGED <<now, store, lease, pc, bucket, groups, trace, ntenants,
                 fails, empties, ran>>
  /\ UNCHANGED <<chanVars, authVars>>

\* bucket = Utils.trunc_time(Time.now) - DELAY, and the call of snapshot.
ComputeBucket(w) ==
  /\ pc[w] = "locked"
  /\ bucket' = [bucket EXCEPT ![w] = TruncTime(now) - DELAY]
  /\ ran' = ran \cup {<<part[w], TruncTime(now) - DELAY>>}
  /\ pc' = [pc EXCEPT ![w] = "snapshot"]
  /\ UNCHANGED <<now, store, lease, part, groups, trace, ntenants, fails,
                 empties>>
  /\ UNCHANGED <<chanVars, authVars>>

\* redis.keys("*:bucket:*")
Scanned(b) == {r \in store : r.bucket = b}

\* .select {|key| Integer(key.split(':')[0]) % max == partition}
RetainedUpTo(p, max, b) ==
  {r \in Scanned(b) : IntegerOf(r.prefix) % max <= p}

Retained(p, max, b) ==
  {r \in Scanned(b) : IntegerOf(r.prefix) % max = p}

\* .group_by {|metric| metric["consumer"]}, as <<consumer, records>> pairs
GroupByConsumer(recs) ==
  LET cs == FirstKeys([i \in DOMAIN recs |-> recs[i].consumer], {})
  IN  [i \in DOMAIN cs |->
         <<cs[i], SelectSeq(recs, LAMBDA m : m.consumer = cs[i])>>]

\* The key scan, the partition filter, the fetch and the grouping.  The
\* keys come back from the store in any order.
Scan(w) ==
  /\ pc[w] = "snapshot"
  /\ \A r \in Scanned(bucket[w]) : IntegerOk(r.prefix)
  /\ \E order \in Perms(Retained(part[w], NumOutlets, bucket[w])) :
       /\ groups' = [groups EXCEPT ![w] = GroupByConsumer(order)]
       /\ ntenants' = [ntenants EXCEPT ![w] = Len(GroupByConsumer(order))]
  /\ pc' = [pc EXCEPT ![w] = "tenants"]
  /\ UNCHANGED <<now, store, lease, part, bucket, trace, fails, empties, ran>>
  /\ UNCHANGED <<chanVars, authVars>>

\* Integer() raises in the select: nothing rescues it, so it leaves
\* snapshot, the lock block and the loop.  The lease is released by an
\* ensure of the lock block, or stays until its TTL runs out.
ScanRaises(w) ==
  /\ pc[w] = "snapshot"
  /\ \E r \in Scanned(bucket[w]) : ~IntegerOk(r.prefix)
  /\ pc' = [pc EXCEPT ![w] = "dead"]
  /\ lease' \in {lease, Release(w, part[w])}
  /\ UNCHANGED <<now, store, part, bucket, groups, trace, ntenants, fails,
                 empties, ran>>
  /\ UNCHANGED <<chanVars, authVars>>

\* One iteration of .each do |consumer_id, metrics| ... end
Tenant(w) ==
  /\ pc[w] = "tenants"
  /\ groups[w] # <<>>
  /\ LET c == Head(groups[w])[1]
         metrics == Head(groups[w])[2]
     IN \E lookupOk, submitOk \in BOOLEAN, rep \in RepChoices(metrics) :
          LET r == ProcessTenant(c, metrics, bucket[w], lookupOk, submitOk, rep)
              a == Aggregate(bucket[w], metrics, rep)
              failed == ~lookupOk \/ a.raise \/ (a.out # <<>> /\ ~submitOk)
          IN /\ trace' = [trace EXCEPT ![w] = @ \o r.events]
             /\ fails' = [fails EXCEPT ![w] = IF failed THEN @ \cup {c} ELSE @]
             /\ empties' = [empties EXCEPT ![w] =
                              IF ~failed /\ a.out = <<>> THEN @ \cup {c} ELSE @]
             /\ IF r.raised
                THEN /\ pc' = [pc EXCEPT ![w] = "dead"]
                     /\ UNCHANGED groups
                ELSE /\ groups' = [groups EXCEPT ![w] = Tail(@)]
                     /\ UNCHANGED pc
  /\ UNCHANGED <<now, store, lease, part, bucket, ntenants, ran>>
  /\ UNCHANGED <<chanVars, authVars>>

\* The snapshot returns, the lock block ends, the lease is released and the
\* loop goes on to the next partition.
Finish(w) ==
  /\ pc[w] = "tenants"
  /\ groups[w] = <<>>
  /\ lease' = Release(w, part[w])
  /\ part' = [part EXCEPT ![w] = NextPart(part[w])]
  /\ pc' = [pc EXCEPT ![w] = "loop"]
  /\ bucket' = [bucket EXCEPT ![w] = 0]
  /\ trace' = [trace EXCEPT ![w] = <<>>]
  /\ ntenants' = [ntenants EXCEPT ![w] = 0]
  /\ fails' = [fails EXCEPT ![w] = {}]
  /\ empties' = [empties EXCEPT ![w] = {}]
  /\ UNCHANGED <<now, store, groups, ran>>
  /\ UNCHANGED <<chanVars, authVars>>

\* Time passes.
Tick ==
  /\ now + Step <= MaxTime
  /\ now' = now + Step
  /\ UNCHANGED <<store, lease, pc, part, bucket, groups, trace, ntenants,
                 fails, empties, ran>>
  /\ UNCHANGED <<chanVars, authVars>>

NextOutlet ==
  \/ \E w \in Workers : LockAcquire(w)
  \/ \E w \in Workers : LockSkip(w)
  \/ \E w \in Workers : ComputeBucket(w)
  \/ \E w \in Workers : Scan(w)
  \/ \E w \in Workers : ScanRaises(w)
  \/ \E w \in Workers : Tenant(w)
  \/ \E w \in Workers : Finish(w)
  \/ Tick

---------------------------------------------------------------------------
(***************************************************************************)
(* The metrics channel (metchan.go).                                       *)
(***************************************************************************)
Callers == 1..NumCallers
Flusher == NumCallers + 1
NoHolder == 0

AppName == "l2met"
Host == "h1"
MeasureNames == {"m"}
Users == {"a@b"}
Values == {2}

\* strings.Replace(user, "@", "_at_", -1) on the users of the model.
Sanitize(u) == CASE u = "a@b" -> "a_at_b" [] OTHER -> u

\* t.Truncate(d)
Truncate(t, d) == (t \div d) * d

\* The bucket.Id that Measure builds; its Time is the zero time.
MeasureId(name) ==
  [Resolution |-> FlushInterval, Name |-> AppName \o "." \o name,
   Units |-> "ms", Source |-> Host, Time |-> ZeroTime]

\* The bucket.Id that CountReq builds.
CountReqId(user) ==
  [Resolution |-> FlushInterval, Name |-> AppName \o "." \o "receiver.requests",
   Units |-> "requests", Source |-> Sanitize(user), Time |-> ZeroTime]

KeyOf(id) == id.Name \o ":" \o id.Source

\* A new bucket: Vals = make([]float64, 1, 10000), one zero.
NewBucket(id) == [Id |-> id, Vals |-> <<0>>]

RolloverKeepsVals(b, latest) ==
  IF b.Id.Time # latest
  THEN [Id |-> [b.Id EXCEPT !.Time = latest], Vals |-> b.Vals]
  ELSE b

\* if b.Id.Time != latest { b.Id.Time = latest; b.Vals = b.Vals[:0] }
Rollover(b, latest) ==
  IF b.Id.Time # latest
  THEN [Id |-> [b.Id EXCEPT !.Time = latest], Vals |-> <<>>]
  ELSE b

\* The bucket the add works on: the one in the buffer, or a new one.
Lookup(buf, id) ==
  IF KeyOf(id) \in DOMAIN buf THEN buf[KeyOf(id)] ELSE NewBucket(id)

AddToResetsOnly(buf, id, val, t) ==
  LET b == Rollover(Lookup(buf, id), Truncate(t, FlushInterval))
  IN  (KeyOf(id) :> b) @@ buf

AddToWraps(buf, id, val, t) ==
  LET b == Rollover(Lookup(buf, id), Truncate(t, FlushInterval))
  IN  (KeyOf(id) :> [b EXCEPT !.Vals = IF Len(@) >= 2 THEN <<val>>
                                       ELSE Append(@, val)]) @@ buf

\* The body of Channel.add at wall time t: the buffer afterwards.
AddTo(buf, id, val, t) ==
  LET b == Rollover(Lookup(buf, id), Truncate(t, FlushInterval))
  IN  (KeyOf(id) :> [b EXCEPT !.Vals = Append(@, val)]) @@ buf

\* Whether that add discards the values of an earlier window.
RollsOver(buf, id, t) ==
  Lookup(buf, id).Id.Time # Truncate(t, FlushInterval)

(***************************************************************************)
(* bucket.Bucket's reducers, as the specification gives them.              *)
(***************************************************************************)
Count(b) == Len(b.Vals)

Sum(b) == SumSeq(b.Vals)

Max(b) == CHOOSE x \in Range(b.Vals) : \A y \in Range(b.Vals) : y <= x

Min(b) == CHOOSE x \in Range(b.Vals) : \A y \in Range(b.Vals) : x <= y

\* The libratoMetric that flush builds from a bucket.
Metric(b) ==
  [Name |-> b.Id.Name, Time |-> b.Id.Time, Source |-> b.Id.Source,
   Count |-> Count(b), Sum |-> Sum(b), Max |-> Max(b), Min |-> Min(b)]

NoItem == [seq |-> 0]

AlwaysFree == TRUE

\* c.Lock() returns only when no goroutine holds the mutex.
MutexFree == mu = NoHolder

\* New(cfg): cfg.MetchanUrl decides Enabled.
InitChannel ==
  /\ clock = 0
  /\ Enabled \in BOOLEAN
  /\ started = FALSE
  /\ startAt = 0
  /\ tickReady = FALSE
  /\ mu = NoHolder
  /\ Buffer = <<>>
  /\ outbox = <<>>
  /\ cpc = [g \in Callers |-> "idle"]
  /\ cid = [g \in Callers |-> MeasureId("m")]
  /\ cval = [g \in Callers |-> 0]
  /\ fpc = "off"
  /\ ftodo = {}
  /\ fsent = <<>>
  /\ ppc = "off"
  /\ pitem = NoItem
  /\ ncalls = 0
  /\ nenq = 0
  /\ nposts = 0
  /\ perr = FALSE
  /\ cur = <<>>
  /\ unflushed = <<>>
  /\ lost = 0
  /\ emitted = <<>>

\* Start(): the two goroutines are started only when the channel is enabled.
Start ==
  /\ ~started
  /\ started' = TRUE
  /\ IF Enabled
     THEN /\ fpc' = "wait"
          /\ ppc' = "recv"
          /\ startAt' = clock
     ELSE UNCHANGED <<fpc, ppc, startAt>>
  /\ UNCHANGED <<clock, Enabled, tickReady, mu, Buffer, outbox, cpc, cid, cval,
                 ftodo, fsent, pitem, ncalls, nenq, nposts, perr, cur,
                 unflushed, lost, emitted>>
  /\ UNCHANGED <<outletVars, authVars>>

\* Measure(name, v): returns at once when the channel is not enabled,
\* otherwise calls add.
Measure(g, name, v, max) ==
  /\ cpc[g] = "idle"
  /\ ncalls < max
  /\ ncalls' = ncalls + 1
  /\ IF Enabled
     THEN /\ cpc' = [cpc EXCEPT ![g] = "lock"]
          /\ cid' = [cid EXCEPT ![g] = MeasureId(name)]
          /\ cval' = [cval EXCEPT ![g] = v]
     ELSE UNCHANGED <<cpc, cid, cval>>
  /\ UNCHANGED <<clock, Enabled, started, startAt, tickReady, mu, Buffer,
                 outbox, fpc, ftodo, fsent, ppc, pitem, nenq, nposts, perr,
                 cur, unflushed, lost, emitted>>
  /\ UNCHANGED <<outletVars, authVars>>

\* Time(name, t): Measure of the milliseconds elapsed since t.
TimeCall(g, name, t, max) == Measure(g, name, (clock - t) * 1000, max)

\* CountReq(user): calls add whether or not the channel is enabled.
CountReq(g, user, max) ==
  /\ cpc[g] = "idle"
  /\ ncalls < max
  /\ ncalls' = ncalls + 1
  /\ cpc' = [cpc EXCEPT ![g] = "lock"]
  /\ cid' = [cid EXCEPT ![g] = CountReqId(user)]
  /\ cval' = [cval EXCEPT ![g] = 1]
  /\ UNCHANGED <<clock, Enabled, started, startAt, tickReady, mu, Buffer,
                 outbox, fpc, ftodo, fsent, ppc, pitem, nenq, nposts, perr,
                 cur, unflushed, lost, emitted>>
  /\ UNCHANGED <<outletVars, authVars>>

\* add: c.Lock()
AddLock(g) ==
  /\ cpc[g] = "lock"
  /\ MutexFree
  /\ mu' = g
  /\ cpc' = [cpc EXCEPT ![g] = "locked"]
  /\ UNCHANGED <<clock, Enabled, started, startAt, tickReady, Buffer, outbox,
                 cid, cval, fpc, ftodo, fsent, ppc, pitem, ncalls, nenq,
                 nposts, perr, cur, unflushed, lost, emitted>>
  /\ UNCHANGED <<outletVars, authVars>>

\* add: the body, and the deferred c.Unlock()
AddBody(g) ==
  /\ cpc[g] = "locked"
  /\ LET k == KeyOf(cid[g])
         old == IF k \in DOMAIN unflushed THEN unflushed[k] ELSE 0
         roll == RollsOver(Buffer, cid[g], clock)
         win == Truncate(clock, FlushInterval)
     IN /\ Buffer' = AddTo(Buffer, cid[g], cval[g], clock)
        /\ cur' = (k :> [win |-> win,
                          vals |-> IF k \in DOMAIN cur /\ cur[k].win = win
                                   THEN Append(cur[k].vals, cval[g])
                                   ELSE <<cval[g]>>]) @@ cur
        /\ lost' = IF roll THEN lost + old ELSE lost
        /\ unflushed' = (k :> ((IF roll THEN 0 ELSE old)
                                + (IF Enabled /\ started THEN 1 ELSE 0)))
                          @@ unflushed
  /\ mu' = NoHolder
  /\ cpc' = [cpc EXCEPT ![g] = "idle"]
  /\ UNCHANGED <<clock, Enabled, started, startAt, tickReady, outbox, cid,
                 cval, fpc, ftodo, fsent, ppc, pitem, ncalls, nenq, nposts,
                 perr, emitted>>
  /\ UNCHANGED <<outletVars, authVars>>

\* scheduleFlush: a tick arrives from time.Tick
FlushTick ==
  /\ fpc = "wait"
  /\ tickReady
  /\ tickReady' = FALSE
  /\ fpc' = "lock"
  /\ UNCHANGED <<clock, Enabled, started, startAt, mu, Buffer, outbox, cpc,
                 cid, cval, ftodo, fsent, ppc, pitem, ncalls, nenq, nposts,
                 perr, cur, unflushed, lost, emitted>>
  /\ UNCHANGED <<outletVars, authVars>>

\* flush: c.Lock(), and the start of the range over c.Buffer
FlushLock ==
  /\ fpc = "lock"
  /\ MutexFree
  /\ mu' = Flusher
  /\ fpc' = "send"
  /\ ftodo' = DOMAIN Buffer
  /\ fsent' = <<>>
  /\ UNCHANGED <<clock, Enabled, started, startAt, tickReady, Buffer, outbox,
                 cpc, cid, cval, ppc, pitem, ncalls, nenq, nposts, perr,
                 cur, unflushed, lost, emitted>>
  /\ UNCHANGED <<outletVars, authVars>>

SendsAtOnce(box) == TRUE

\* c.outbox <- m: the send waits while the outbox is full.

CanSend(box) == Len(box) < OutboxCap

Send(box, item) == Append(box, item)

\* flush: one iteration of the range, in any order of the keys
FlushSend ==
  /\ fpc = "send"
  /\ CanSend(outbox)
  /\ \E k \in ftodo :
       /\ outbox' = Send(outbox, [seq |-> nenq + 1, m |-> Metric(Buffer[k])])
       /\ ftodo' = ftodo \ {k}
       /\ fsent' = Append(fsent, k)
       /\ unflushed' = [unflushed EXCEPT ![k] = 0]
       /\ emitted' =
            (k :> [t |-> Buffer[k].Id.Time, n |-> Count(Buffer[k]),
                   again |-> k \in DOMAIN emitted
                               /\ emitted[k].t = Buffer[k].Id.Time])
              @@ emitted
  /\ nenq' = nenq + 1
  /\ UNCHANGED <<clock, Enabled, started, startAt, tickReady, mu, Buffer, cpc,
                 cid, cval, fpc, ppc, pitem, ncalls, nposts, perr, cur, lost>>
  /\ UNCHANGED <<outletVars, authVars>>

\* flush: the range is over, the deferred c.Unlock()
FlushUnlock ==
  /\ fpc = "send"
  /\ ftodo = {}
  /\ mu' = NoHolder
  /\ fpc' = "wait"
  /\ fsent' = <<>>
  /\ UNCHANGED <<clock, Enabled, started, startAt, tickReady, Buffer, outbox,
                 cpc, cid, cval, ftodo, ppc, pitem, ncalls, nenq, nposts,
                 perr, cur, unflushed, lost, emitted>>
  /\ UNCHANGED <<outletVars, authVars>>

PosterRecvUnderLock ==
  /\ ppc = "recv"
  /\ outbox # <<>>
  /\ MutexFree
  /\ pitem' = Head(outbox)
  /\ outbox' = Tail(outbox)
  /\ ppc' = "post"
  /\ UNCHANGED <<clock, Enabled, started, startAt, tickReady, mu, Buffer, cpc,
                 cid, cval, fpc, ftodo, fsent, ncalls, nenq, nposts, perr,
                 cur, unflushed, lost, emitted>>
  /\ UNCHANGED <<outletVars, authVars>>

\* outlet: for met := range c.outbox
PosterRecv ==
  /\ ppc = "recv"
  /\ outbox # <<>>
  /\ pitem' = Head(outbox)
  /\ outbox' = Tail(outbox)
  /\ ppc' = "post"
  /\ UNCHANGED <<clock, Enabled, started, startAt, tickReady, mu, Buffer, cpc,
                 cid, cval, fpc, ftodo, fsent, ncalls, nenq, nposts, perr,
                 cur, unflushed, lost, emitted>>
  /\ UNCHANGED <<outletVars, authVars>>

\* What the poster does after c.post(met) returned res.
AfterPostExits(res) == IF res = "ok" THEN "recv" ELSE "exit"

AfterPost(res) == "recv"

\* outlet: c.post(met) and the print of its error.  The post fails when the
\* request cannot be built or sent, or the status is not 2xx.
PosterPost ==
  /\ ppc = "post"
  /\ \E res \in {"ok", "neterr", "non2xx"} :
       /\ perr' = (res # "ok")
       /\ ppc' = AfterPost(res)
  /\ nposts' = nposts + 1
  /\ pitem' = NoItem
  /\ UNCHANGED <<clock, Enabled, started, startAt, tickReady, mu, Buffer,
                 outbox, cpc, cid, cval, fpc, ftodo, fsent, ncalls, nenq, cur,
                 unflushed, lost, emitted>>
  /\ UNCHANGED <<outletVars, authVars>>

\* Time passes; the ticker fires every FlushInterval from its creation, and
\* its channel holds at most one tick.
TicksIn(t1, t2) ==
  \E t \in (t1 + 1)..t2 : (t - startAt) % FlushInterval = 0

ClockTick(max) ==
  /\ clock + Step <= max
  /\ clock' = clock + Step
  /\ tickReady' = (tickReady \/ (fpc # "off" /\ TicksIn(clock, clock + Step)))
  /\ UNCHANGED <<Enabled, started, startAt, mu, Buffer, outbox, cpc, cid, cval,
                 fpc, ftodo, fsent, ppc, pitem, ncalls, nenq, nposts, perr,
                 cur, unflushed, lost, emitted>>
  /\ UNCHANGED <<outletVars, authVars>>

NextChan ==
  \/ Start
  \/ \E g \in Callers, name \in MeasureNames, v \in Values :
       Measure(g, name, v, MaxObs)
  \/ \E g \in Callers, name \in MeasureNames :
       TimeCall(g, name, clock, MaxObs)
  \/ \E g \in Callers, user \in Users : CountReq(g, user, MaxObs)
  \/ \E g \in Callers : AddLock(g)
  \/ \E g \in Callers : AddBody(g)
  \/ FlushTick
  \/ FlushLock
  \/ FlushSend
  \/ FlushUnlock
  \/ PosterRecv
  \/ PosterPost
  \/ ClockTick(MaxClock)

\* One goroutine counting requests, over a longer time.
NextLong ==
  \/ \E user \in Users : CountReq(1, user, LongObs)
  \/ AddLock(1)
  \/ AddBody(1)
  \/ FlushTick
  \/ FlushLock
  \/ FlushSend
  \/ FlushUnlock
  \/ PosterRecv
  \/ PosterPost
  \/ ClockTick(LongClock)

---------------------------------------------------------------------------
(***************************************************************************)
(* The auth resolver (ParseAuth).  A string is the sequence of its bytes.  *)
(***************************************************************************)
Alphabet ==
  <<"A", "B", "C", "D", "E", "F", "G", "H", "I", "J", "K", "L", "M",
    "N", "O", "P", "Q", "R", "S", "T", "U", "V", "W", "X", "Y", "Z",
    "a", "b", "c", "d", "e", "f", "g", "h", "i", "j", "k", "l", "m",
    "n", "o", "p", "q", "r", "s", "t", "u", "v", "w", "x", "y", "z",
    "0", "1", "2", "3", "4", "5", "6", "7", "8", "9", "+", "/">>

Colon == 58
Space == 32
Pad == 61

\* The byte of a character.
Ord(c) ==
  CASE c = ":" -> Colon
    [] c = " " -> Space
    [] c = "=" -> Pad
    [] c = "+" -> 43
    [] c = "/" -> 47
    [] OTHER ->
         LET i == CHOOSE j \in DOMAIN Alphabet : Alphabet[j] = c
         IN  IF i <= 26 THEN 64 + i ELSE IF i <= 52 THEN 70 + i ELSE i - 5

Str(cs) == [i \in DOMAIN cs |-> Ord(cs[i])]

\* The 6-bit value of a byte in the standard base64 alphabet, or -1.
B64Val(b) ==
  IF b \in 65..90 THEN b - 65
  ELSE IF b \in 97..122 THEN b - 71
  ELSE IF b \in 48..57 THEN b + 4
  ELSE IF b = 43 THEN 62
  ELSE IF b = 47 THEN 63
  ELSE -1

B64Byte(v) ==
  IF v <= 25 THEN v + 65
  ELSE IF v <= 51 THEN v + 71
  ELSE IF v <= 61 THEN v - 4
  ELSE IF v = 62 THEN 43
  ELSE 47

RECURSIVE EncodeToString(_)
\* base64.StdEncoding.EncodeToString, which the client applies.
EncodeToString(bs) ==
  IF bs = <<>> THEN <<>>
  ELSE IF Len(bs) = 1 THEN
    <<B64Byte(bs[1] \div 4), B64Byte((bs[1] % 4) * 16), Pad, Pad>>
  ELSE IF Len(bs) = 2 THEN
    <<B64Byte(bs[1] \div 4), B64Byte((bs[1] % 4) * 16 + bs[2] \div 16),
      B64Byte((bs[2] % 16) * 4), Pad>>
  ELSE
    <<B64Byte(bs[1] \div 4), B64Byte((bs[1] % 4) * 16 + bs[2] \div 16),
      B64Byte((bs[2] % 16) * 4 + bs[3] \div 64), B64Byte(bs[3] % 64)>>
      \o EncodeToString(SubSeq(bs, 4, Len(bs)))

\* The number of leading alphabet bytes of s, at most 4.
Quantum(s) ==
  LET ok(i) == i <= Len(s) /\ B64Val(s[i]) >= 0
  IN  IF ~ok(1) THEN 0 ELSE IF ~ok(2) THEN 1 ELSE IF ~ok(3) THEN 2
      ELSE IF ~ok(4) THEN 3 ELSE 4

\* The bytes that n leading alphabet bytes of s decode to (n in 2..4).
QuantumBytes(s, n) ==
  LET v(i) == IF i <= n THEN B64Val(s[i]) ELSE 0
      x == v(1) * 262144 + v(2) * 4096 + v(3) * 64 + v(4)
      bs == <<x \div 65536, (x \div 256) % 256, x % 256>>
  IN  SubSeq(bs, 1, n - 1)

RECURSIVE DecodeString(_)
\* base64.StdEncoding.DecodeString: the bytes decoded, and whether it
\* returned an error.  The bytes decoded before the error are returned
\* with it.  (No string of the model holds \r or \n.)
DecodeString(s) ==
  IF s = <<>> THEN [bytes |-> <<>>, err |-> FALSE]
  ELSE LET n == Quantum(s) IN
    IF n = 4
    THEN LET r == DecodeString(SubSeq(s, 5, Len(s)))
         IN  [bytes |-> QuantumBytes(s, 4) \o r.bytes, err |-> r.err]
    ELSE IF Len(s) = n \/ s[n + 1] # Pad \/ n < 2
    THEN [bytes |-> <<>>, err |-> TRUE]
    ELSE IF n = 2
    THEN IF Len(s) < 4 \/ s[4] # Pad
         THEN [bytes |-> <<>>, err |-> TRUE]
         ELSE [bytes |-> QuantumBytes(s, 2), err |-> Len(s) > 4]
    ELSE [bytes |-> QuantumBytes(s, 3), err |-> Len(s) > 4]

\* The index of the first byte sep in s, or 0.
Index(s, sep) ==
  IF \E i \in DOMAIN s : s[i] = sep
  THEN CHOOSE i \in DOMAIN s : s[i] = sep /\ \A j \in 1..(i - 1) : s[j] # sep
  ELSE 0

RECURSIVE Split(_, _)
\* strings.Split(s, sep) for a one-byte sep.
Split(s, sep) ==
  LET i == Index(s, sep)
  IN  IF i = 0 THEN <<s>>
      ELSE <<SubSeq(s, 1, i - 1)>> \o Split(SubSeq(s, i + 1, Len(s)), sep)

\* strings.SplitN(s, sep, 2)
SplitN2(s, sep) ==
  LET i == Index(s, sep)
  IN  IF i = 0 THEN <<s>>
      ELSE <<SubSeq(s, 1, i - 1), SubSeq(s, i + 1, Len(s))>>

Sentinel == Str(<<"l", "2", "m", "e", "t">>)

(***************************************************************************)
(* fernet.VerifyAndDecrypt(userPass, OneHundredYears, keys): the plaintext *)
(* of a token signed with one of the keys, nil for anything else.  TokenA  *)
(* and TokenB stand for two tokens signed with the same key.               *)
(***************************************************************************)
TokenA == Str(<<"g", "A", "A", "A">>)
TokenB == Str(<<"g", "A", "A", "B">>)
Nil == <<-1>>

VerifyAndDecrypt(msg, ok) ==
  IF ok /\ msg = TokenA THEN Str(<<"a", "l", ":", "p", "w">>)
  ELSE IF ok /\ msg = TokenB THEN Str(<<"a", "l", "i", "c", "e">>)
  ELSE Nil

(***************************************************************************)
(* The requests of the model.                                              *)
(***************************************************************************)
Payloads ==
  { Str(<<"l", "2", "m", "e", "t", ":", "t", "k">>),
    Str(<<"l", "2", "m", "e", "t", ":", "t", "k", ":", "x">>),
    Str(<<"l", "2", "m", "e", "t">>),
    Str(<<"l", "2", "m", "e", "t", ":">>),
    Str(<<"j", "u", "s", "t", "a", "u", "s", "e", "r">>),
    EncodeToString(Str(<<"b", "o", "b", ":", "p", "w">>)),
    EncodeToString(Str(<<"b", "o", "b", ":", "p", "w">>))
      \o Str(<<":", "i", "g">>),
    EncodeToString(Str(<<"b", "o", "b", ":", "p", ":", "q">>)),
    EncodeToString(Str(<<"b", "o">>)),
    EncodeToString(Str(<<"b">>)) \o Str(<<":", "z">>),
    Str(<<":", "x">>),
    <<>>,
    TokenA,
    TokenB }

Basic == Str(<<"B", "a", "s", "i", "c">>)

\* The map has no "Authorization" entry.
NoHeader == <<Nil>>

Headers ==
  {NoHeader}
    \cup {<<Basic \o <<Space>> \o EncodeToString(p)>> : p \in Payloads}
    \cup { <<Basic>>,
           <<Basic \o <<Space>> \o Str(<<"a", ":", "b", "c">>)>>,
           <<Basic \o <<Space>> \o Str(<<"b", "G", "k">>)>>,
           <<Basic \o <<Space>> \o Str(<<"b", "G", "k", " ", "x">>)>> }

ErrNil == "nil"

IdleAuth ==
  /\ header = NoHeader
  /\ keysOk = FALSE
  /\ apc = "idle"
  /\ auth = <<>>
  /\ userPass = <<>>
  /\ parts = <<>>
  /\ ruser = <<>>
  /\ rpass = <<>>
  /\ err = ErrNil
  /\ verified = FALSE

\* header, ok := r.Header["Authorization"]
AuthHeader ==
  /\ apc = "header"
  /\ IF header = NoHeader
     THEN /\ err' = "Authorization header not set."
          /\ apc' = "return"
     ELSE /\ apc' = "split"
          /\ UNCHANGED err
  /\ UNCHANGED <<header, keysOk, auth, userPass, parts, ruser, rpass, verified>>
  /\ UNCHANGED <<outletVars, chanVars>>

\* auth := strings.SplitN(header[0], " ", 2)
AuthSplit ==
  /\ apc = "split"
  /\ auth' = SplitN2(header[1], Space)
  /\ IF Len(auth') # 2
     THEN /\ err' = "Malformed header."
          /\ apc' = "return"
     ELSE /\ apc' = "decode"
          /\ UNCHANGED err
  /\ UNCHANGED <<header, keysOk, userPass, parts, ruser, rpass, verified>>
  /\ UNCHANGED <<outletVars, chanVars>>

\* userPass, err := base64.StdEncoding.DecodeString(auth[1])
AuthDecode ==
  /\ apc = "decode"
  /\ LET d == DecodeString(auth[2]) IN
       /\ userPass' = d.bytes
       /\ IF d.err
          THEN /\ err' = "Malformed encoding."
               /\ apc' = "return"
          ELSE /\ apc' = "sentinel"
               /\ UNCHANGED err
  /\ UNCHANGED <<header, keysOk, auth, parts, ruser, rpass, verified>>
  /\ UNCHANGED <<outletVars, chanVars>>

\* parts := strings.Split(string(userPass), ":")
\* if parts[0] == "l2met" && len(parts[1]) > 0 { ...; return }
\* parts[1] is out of range when the payload has no ":".
AuthSentinel ==
  /\ apc = "sentinel"
  /\ parts' = Split(userPass, Colon)
  /\ IF parts'[1] # Sentinel
     THEN /\ apc' = "token"
          /\ UNCHANGED <<ruser, rpass>>
     ELSE IF Len(parts') < 2
     THEN /\ apc' = "panic"
          /\ UNCHANGED <<ruser, rpass>>
     ELSE IF Len(parts'[2]) > 0
     THEN /\ ruser' = parts'[1]
          /\ rpass' = parts'[2]
          /\ apc' = "return"
     ELSE /\ apc' = "token"
          /\ UNCHANGED <<ruser, rpass>>
  /\ UNCHANGED <<header, keysOk, auth, userPass, err, verified>>
  /\ UNCHANGED <<outletVars, chanVars>>

\* if s := fernet.VerifyAndDecrypt(...); s != nil { ...; return }
\* parts[1] of the plaintext is out of range when it has no ":".
AuthToken ==
  /\ apc = "token"
  /\ verified' = TRUE
  /\ LET s == VerifyAndDecrypt(userPass, keysOk) IN
       IF s = Nil
       THEN /\ apc' = "inline"
            /\ UNCHANGED <<ruser, rpass>>
       ELSE LET ps == Split(s, Colon) IN
         IF Len(ps) < 2
         THEN /\ ruser' = ps[1]
              /\ apc' = "panic"
              /\ UNCHANGED rpass
         ELSE /\ ruser' = ps[1]
              /\ rpass' = ps[2]
              /\ apc' = "return"
  /\ UNCHANGED <<header, keysOk, auth, userPass, parts, err>>
  /\ UNCHANGED <<outletVars, chanVars>>

\* if len(parts[0]) > 0 { decodedPart, err = DecodeString(parts[0]); ... }
\* err is the named result: a decoding error is returned with the user.
AuthInline ==
  /\ apc = "inline"
  /\ IF Len(parts[1]) > 0
     THEN LET d == DecodeString(parts[1])
              outletCreds == Split(d.bytes, Colon)
          IN  /\ err' = IF d.err THEN "CorruptInputError" ELSE ErrNil
              /\ ruser' = outletCreds[1]
              /\ rpass' = IF Len(outletCreds) > 1 THEN outletCreds[2] ELSE rpass
     ELSE UNCHANGED <<ruser, rpass, err>>
  /\ apc' = "return"
  /\ UNCHANGED <<header, keysOk, auth, userPass, parts, verified>>
  /\ UNCHANGED <<outletVars, chanVars>>

NextAuth ==
  \/ AuthHeader
  \/ AuthSplit
  \/ AuthDecode
  \/ AuthSentinel
  \/ AuthToken
  \/ AuthInline

---------------------------------------------------------------------------
(***************************************************************************)
(* The specifications.                                                     *)
(***************************************************************************)
\* No outlet worker is running: the sample store is empty.
IdleOutlet ==
  /\ now = 0
  /\ store = {}
  /\ InitWorkers

\* The channel of a process that never uses it.
IdleChannel ==
  /\ InitChannel
  /\ Enabled = FALSE

InitChan == InitChannel /\ IdleOutlet /\ IdleAuth

SpecChan == InitChan /\ [][NextChan]_vars

\* The channel after New(cfg) with a URL, and Start().
InitStarted ==
  /\ clock = 0
  /\ Enabled = TRUE
  /\ started = TRUE
  /\ startAt = 0
  /\ tickReady = FALSE
  /\ mu = NoHolder
  /\ Buffer = <<>>
  /\ outbox = <<>>
  /\ cpc = [g \in Callers |-> "idle"]
  /\ cid = [g \in Callers |-> MeasureId("m")]
  /\ cval = [g \in Callers |-> 0]
  /\ fpc = "wait"
  /\ ftodo = {}
  /\ fsent = <<>>
  /\ ppc = "recv"
  /\ pitem = NoItem
  /\ ncalls = 0
  /\ nenq = 0
  /\ nposts = 0
  /\ perr = FALSE
  /\ cur = <<>>
  /\ unflushed = <<>>
  /\ lost = 0
  /\ emitted = <<>>

InitLong == InitStarted /\ IdleOutlet /\ IdleAuth

SpecLong == InitLong /\ [][NextLong]_vars

FairLong ==
  /\ SpecLong
  /\ WF_vars(AddBody(1))
  /\ WF_vars(FlushLock)
  /\ WF_vars(FlushSend)
  /\ WF_vars(FlushUnlock)
  /\ WF_vars(PosterRecv)
  /\ WF_vars(PosterPost)

\* FairLong, and a caller that waits at c.Lock() gets the mutex: a
\* sync.Mutex hands itself to a goroutine that has waited long.
FairAdd ==
  /\ FairLong
  /\ SF_vars(AddLock(1))

\* The fleet: every worker runs the loop.
InitOutlet ==
  /\ now = 0
  /\ store \in StoreChoices(FleetRecs)
  /\ InitWorkers
  /\ IdleChannel
  /\ IdleAuth

SpecOutlet == InitOutlet /\ [][NextOutlet]_vars

\* ParseAuth called once, on any request of the model.
InitAuth ==
  /\ header \in Headers
  /\ keysOk \in BOOLEAN
  /\ apc = "header"
  /\ auth = <<>>
  /\ userPass = <<>>
  /\ parts = <<>>
  /\ ruser = <<>>
  /\ rpass = <<>>
  /\ err = ErrNil
  /\ verified = FALSE
  /\ IdleOutlet
  /\ IdleChannel

SpecAuth == InitAuth /\ [][NextAuth]_vars

\* One step of worker w's loop.
WorkerStep(w) ==
  \/ LockAcquire(w)
  \/ LockSkip(w)
  \/ ComputeBucket(w)
  \/ Scan(w)
  \/ ScanRaises(w)
  \/ Tenant(w)
  \/ Finish(w)

\* Time passes, and every worker process whose loop has not ended keeps
\* being scheduled.
FairOutlet ==
  /\ SpecOutlet
  /\ WF_vars(Tick)
  /\ \A w \in Workers : WF_vars(WorkerStep(w))

\* One worker running the loop alone, over a larger store.
Sweep(w) ==
  \/ LockAcquire(w)
  \/ ComputeBucket(w)
  \/ Scan(w)
  \/ ScanRaises(w)
  \/ Tenant(w)
  \/ Finish(w)

InitSnap ==
  /\ now = 0
  /\ store \in StoreChoices(MaxRecs)
  /\ InitWorkers
  /\ IdleChannel
  /\ IdleAuth

NextSnap == Sweep(1) \/ Tick

SpecSnap == InitSnap /\ [][NextSnap]_vars

---------------------------------------------------------------------------
(***************************************************************************)
(* Properties of the outlet loop.                                          *)
(***************************************************************************)
InSnapshot(w) == pc[w] \in {"snapshot", "tenants"}

SnapshotDone(w) == pc[w] = "tenants" /\ groups[w] = <<>>

EventsOf(w, e) == SelectSeq(trace[w], LAMBDA x : x.ev = e)

ConsumersOf(evs) == {evs[i].consumer : i \in DOMAIN evs}

\* C1: at no time are two workers inside snapshot for the same
\* (partition, target bucket) pair.
C1_OneWorkerPerPair ==
  \A w1, w2 \in Workers :
    (w1 # w2 /\ InSnapshot(w1) /\ InSnapshot(w2) /\ part[w1] = part[w2])
      => bucket[w1] # bucket[w2]

\* C2: no (partition, target bucket) pair has its snapshot run more than
\* once fleet-wide: a snapshot never starts for a pair that was already
\* started.
C2_NoDoubleProcessing ==
  [][\A w \in Workers :
       (pc[w] = "locked" /\ pc'[w] = "snapshot")
         => <<part[w], bucket'[w]>> \notin ran]_vars

\* C3: a tenant whose processing fails costs exactly one counted error and
\* no submission, every other tenant with a non-empty batch is submitted
\* exactly once, and the snapshot is never aborted by a failing tenant; so
\* with N tenants of which one fails, N-1 are submitted and 1 error counted.
C3_TenantIsolation ==
  \A w \in Workers :
    /\ fails[w] # {} => pc[w] # "dead"
    /\ pc[w] = "tenants" =>
         LET done == ntenants[w] - Len(groups[w])
             subs == EventsOf(w, "submit")
             errs == EventsOf(w, "error")
         IN /\ Len(errs) = Cardinality(fails[w])
            /\ ConsumersOf(errs) = fails[w]
            /\ Len(subs) = done - Cardinality(fails[w]) - Cardinality(empties[w])
            /\ Cardinality(ConsumersOf(subs)) = Len(subs)
            /\ ConsumersOf(subs) \cap fails[w] = {}
            /\ (SnapshotDone(w) /\ Cardinality(fails[w]) = 1 /\ empties[w] = {})
                 => (Len(subs) = ntenants[w] - 1 /\ Len(errs) = 1)

\* A finished snapshot of three tenants in which the second one failed and
\* the first and the third were submitted.
C3_Witness ==
  \E w \in Workers :
    /\ SnapshotDone(w)
    /\ ntenants[w] = 3
    /\ Cardinality(fails[w]) = 1
    /\ empties[w] = {}
    /\ Len(EventsOf(w, "submit")) = 2
    /\ \E i, j, k \in DOMAIN trace[w] :
         /\ i < j /\ j < k
         /\ trace[w][i].ev = "submit"
         /\ trace[w][j].ev = "error"
         /\ trace[w][k].ev = "submit"

\* C4: the outlet loop never exits on a data-level error: no worker ever
\* leaves the loop, whatever the sample store holds.
C4_LoopNeverExits == \A w \in Workers : pc[w] # "dead"

\* The tenant group that worker w is about to process.
AtTenant(w) == pc[w] = "tenants" /\ groups[w] # <<>>

\* The records of metrics with mkey k, in order.
Group(metrics, k) ==
  LET idx == {i \in DOMAIN metrics : metrics[i].prefix = k}
      nth[n \in 1..Cardinality(idx)] ==
        CHOOSE i \in idx : Cardinality({j \in idx : j < i}) = n - 1
  IN  [n \in 1..Cardinality(idx) |-> metrics[nth[n]]]

KeysOf(metrics) == {metrics[i].prefix : i \in DOMAIN metrics}

\* The values that aggregate reads from group g, whose representative is s.
ValuesRead(g, s) ==
  IF s.type = "counter" THEN {g[i].value : i \in DOMAIN g}
  ELSE IF s.type = "last" THEN {g[Len(g)].value}
  ELSE {}

WellFormed(g, s) ==
  /\ s.type \in {"counter", "last"}
  /\ \A v \in ValuesRead(g, s) : FloatOk(v)

\* The output that a well-formed group is to give.
Expected(b, g, s) ==
  [name |-> s.name \o (IF s.type = "counter" THEN ".count" ELSE ".last"),
   value |-> IF s.type = "counter"
             THEN SumSeq([i \in DOMAIN g |-> FloatOf(g[i].value)])
             ELSE FloatOf(g[Len(g)].value),
   source |-> s.source, label |-> s.label, measure_time |-> b]

\* C13: a group of kind counter gives one output <name>.count with the sum
\* of its values, a group of kind last one output <name>.last with the value
\* of its last sample, a group of unknown kind no output and no error; every
\* output carries the bucket and the representative's source and label.
C13_AggregateByKind ==
  \A w \in Workers : AtTenant(w) =>
    LET metrics == Head(groups[w])[2]
        b == bucket[w]
    IN  \A rep \in RepChoices(metrics) :
          LET a == Aggregate(b, metrics, rep)
              good == {k \in KeysOf(metrics) :
                         WellFormed(Group(metrics, k), rep[k])}
              known == {k \in KeysOf(metrics) :
                          rep[k].type \in {"counter", "last"}}
          IN  /\ a.raise <=> good # known
              /\ ~a.raise =>
                   /\ Len(a.out) = Cardinality(good)
                   /\ Range(a.out) =
                        {Expected(b, Group(metrics, k), rep[k]) : k \in good}

\* A snapshot submitted the value of the sample that came last of the two
\* samples of a group of kind last, after a tenant of unknown kind only.
C13_Witness ==
  \E w \in Workers : \E i \in DOMAIN trace[w] :
    /\ empties[w] # {}
    /\ trace[w][i].ev = "submit"
    /\ Len(trace[w][i].batch) = 1
    /\ \E x \in Range(trace[w][i].batch) :
         /\ x.name = "load.last"
         /\ x.value = 1
         /\ x.measure_time = bucket[w]

\* C14: with the directory and the API working, a tenant that has a
\* well-formed group gets a submission holding the outputs of all its
\* well-formed groups, whatever its other groups are.
C14_BadMetricContained ==
  \A w \in Workers : AtTenant(w) =>
    LET c == Head(groups[w])[1]
        metrics == Head(groups[w])[2]
        b == bucket[w]
    IN  \A rep \in RepChoices(metrics) :
          LET good == {k \in KeysOf(metrics) :
                         WellFormed(Group(metrics, k), rep[k])}
              evs == ProcessTenant(c, metrics, b, TRUE, TRUE, rep).events
          IN  good # {} =>
                \E i \in DOMAIN evs :
                  /\ evs[i].ev = "submit"
                  /\ \A k \in good :
                       Expected(b, Group(metrics, k), rep[k])
                         \in Range(evs[i].batch)

\* C18: a tenant's batch is submitted at most once, it is the whole result
\* of aggregate and is not empty, its length is counted just before the
\* submission, and a tenant with an empty batch gets neither.
C18_SubmitOnceAfterAggregate ==
  /\ [](\A w \in Workers :
          LET t == trace[w] IN
          /\ \A i, j \in DOMAIN t :
               (t[i].ev = "submit" /\ t[j].ev = "submit"
                  /\ t[i].consumer = t[j].consumer) => i = j
          /\ \A i \in DOMAIN t : t[i].ev = "submit" =>
               /\ i > 1
               /\ t[i - 1].ev = "count"
               /\ t[i - 1].consumer = t[i].consumer
               /\ t[i - 1].batch = t[i].batch
               /\ Len(t[i].batch) > 0
          /\ \A i \in DOMAIN t : t[i].ev = "count" =>
               /\ Len(t[i].batch) > 0
               /\ i < Len(t)
               /\ t[i + 1].ev \in {"submit", "error"}
               /\ t[i + 1].consumer = t[i].consumer
          /\ \A i \in DOMAIN t : t[i].consumer \notin empties[w])
  /\ [][\A w \in Workers :
          (AtTenant(w) /\ trace'[w] # trace[w]
             /\ trace'[w][Len(trace[w]) + 1].ev = "count")
            => \E rep \in RepChoices(Head(groups[w])[2]) :
                 LET a == Aggregate(bucket[w], Head(groups[w])[2], rep)
                 IN  ~a.raise
                     /\ trace'[w][Len(trace[w]) + 1].batch = a.out]_vars

\* A snapshot with a tenant whose batch was empty and one whose batch was
\* counted and then submitted.
C18_Witness ==
  \E w \in Workers :
    /\ SnapshotDone(w)
    /\ ntenants[w] = 2
    /\ Cardinality(empties[w]) = 1
    /\ Len(trace[w]) = 2
    /\ trace[w][1].ev = "count"
    /\ trace[w][2].ev = "submit"

\* The records of the tenant groups gs.
RecordsOf(gs) == UNION {Range(gs[i][2]) : i \in DOMAIN gs}

\* Worker w has just finished the scan of its snapshot.
JustScanned(w) ==
  pc[w] = "tenants" /\ trace[w] = <<>> /\ Len(groups[w]) = ntenants[w]

\* C15: for a bucket whose keys all have a numeric prefix, the key sets
\* that the snapshots of the partitions retain are pairwise disjoint, their
\* union is the set of keys of the bucket, a key is retained by partition
\* prefix mod P, and that is what a scan hands to the tenant loop.
C15_KeysPartitioned ==
  /\ \A b \in {r.bucket : r \in store} :
       (\A r \in Scanned(b) : IntegerOk(r.prefix)) =>
         /\ \A p, q \in Partitions :
              p # q => Retained(p, NumOutlets, b) \cap
                         Retained(q, NumOutlets, b) = {}
         /\ UNION {Retained(p, NumOutlets, b) : p \in Partitions} = Scanned(b)
         /\ \A r \in Scanned(b) : \A p \in Partitions :
              r \in Retained(p, NumOutlets, b)
                <=> p = IntegerOf(r.prefix) % NumOutlets
  /\ \A w \in Workers : JustScanned(w) =>
       RecordsOf(groups[w]) =
         {r \in store : /\ r.bucket = bucket[w]
                        /\ IntegerOf(r.prefix) % NumOutlets = part[w]}

\* A scan of partition 1 retained keys of a bucket of which partition 0
\* has keys too.
C15_Witness ==
  \E w \in Workers :
    /\ JustScanned(w)
    /\ part[w] = 1
    /\ RecordsOf(groups[w]) # {}
    /\ Retained(0, NumOutlets, bucket[w]) # {}

\* Worker w's loop has ended while the lease of partition p is in its name.
StoppedHolding(w, p) == pc[w] = "dead" /\ lease[p].holder = w

\* C16: when a worker has stopped for ever with the lease of partition p,
\* then, unless every other worker has stopped too, another worker comes to
\* hold the lease and runs a snapshot for p; and a worker that finds a
\* lease held does nothing but go on to the next partition.
C16_CrashedLeaseExpires ==
  /\ \A w \in Workers : \A p \in Partitions :
       StoppedHolding(w, p) ~>
         \/ \A v \in Workers \ {w} : pc[v] = "dead"
         \/ \E v \in Workers \ {w} :
              InSnapshot(v) /\ part[v] = p /\ lease[p].holder = v
  /\ [][\A v \in Workers :
          (pc[v] = "loop" /\ ~LeaseFree(part[v])
             /\ <<pc[v], part[v]>> # <<pc'[v], part'[v]>>)
            => /\ pc'[v] = "loop"
               /\ part'[v] = NextPart(part[v])
               /\ lease' = lease]_vars

\* A worker has stopped with the lease of a partition, the lease has not
\* run out, and another worker has just skipped that partition.
C16_Witness ==
  \E w, v \in Workers : \E p \in Partitions :
    /\ StoppedHolding(w, p)
    /\ ~LeaseFree(p)
    /\ v # w
    /\ pc[v] = "loop"
    /\ part[v] = NextPart(p)
    /\ NextPart(p) # p

---------------------------------------------------------------------------
(***************************************************************************)
(* Properties of the metrics channel.                                      *)
(***************************************************************************)
\* C5: no observation recorded by the enabled and started channel is
\* discarded before a metric that covers it was put on the outbox.
C5_NoObservationLost == lost = 0

\* C6: a flush sends one metric for every bucket of the buffer and removes
\* no bucket, waits while the outbox holds OutboxCap items instead of
\* dropping or skipping one, and, the poster dequeuing, always completes.
C6_FlushCompletes ==
  /\ [](/\ Len(outbox) <= OutboxCap
        /\ fpc = "send" =>
             /\ Range(fsent) \cup ftodo = DOMAIN Buffer
             /\ Range(fsent) \cap ftodo = {}
             /\ Cardinality(Range(fsent)) = Len(fsent))
  /\ [][/\ DOMAIN Buffer \subseteq DOMAIN Buffer'
        /\ (fpc = "send" /\ ftodo # {} /\ Len(outbox) = OutboxCap)
             => (fsent' = fsent /\ ftodo' = ftodo /\ fpc' = fpc)
        /\ (fpc = "send" /\ fsent' # fsent /\ fpc' = "send")
             => /\ Len(fsent') = Len(fsent) + 1
                /\ outbox' = Append(outbox,
                     [seq |-> nenq + 1,
                      m |-> Metric(Buffer[fsent'[Len(fsent')]])])
        /\ (fpc = "send" /\ fpc' = "wait")
             => (ftodo = {} /\ Range(fsent) = DOMAIN Buffer)]_vars
  /\ (fpc = "send") ~> (fpc = "wait")

\* A flush that waits on the full outbox with a bucket still to send.
C6_Witness == fpc = "send" /\ ftodo # {} /\ Len(outbox) = OutboxCap

\* C7: a channel that is not enabled is a no-op sink: its buffer and its
\* outbox stay empty, no flush or poster goroutine runs and nothing is posted.
C7_DisabledIsNoOp ==
  ~Enabled =>
    /\ DOMAIN Buffer = {}
    /\ outbox = <<>>
    /\ fpc = "off"
    /\ ppc = "off"
    /\ nposts = 0

\* C8: the buffer is read and written only by the goroutine that holds the
\* mutex, which is held for one add or one flush at a time and never by
\* the poster.
C8_LockDiscipline ==
  /\ [](/\ \A g \in Callers : cpc[g] = "locked" <=> mu = g
        /\ fpc = "send" <=> mu = Flusher
        /\ mu \in {NoHolder, Flusher} \cup Callers)
  /\ [][/\ Buffer' # Buffer => (mu \in Callers /\ cpc[mu] = "locked")
        /\ ftodo' # ftodo => (mu' = Flusher \/ mu = Flusher)
        /\ (ppc = "post" /\ ppc' # "post") => mu' = mu]_vars

\* An add in its critical section while another add and the flush wait for
\* the mutex and the poster is posting.
C8_Witness ==
  /\ \E g, h \in Callers : cpc[g] = "locked" /\ cpc[h] = "lock"
  /\ fpc = "lock"
  /\ ppc = "post"

\* C9: the poster takes the items in the order they were enqueued, makes one
\* POST attempt for each, never puts one back and never exits.
C9_PosterFifo ==
  /\ ppc \in {"off", "recv", "post"}
  /\ \A i \in DOMAIN outbox : outbox[i].seq = nenq - Len(outbox) + i
  /\ ppc = "post" => (pitem.seq = nposts + 1 /\ nposts + 1 + Len(outbox) = nenq)
  /\ ppc # "post" => (pitem = NoItem /\ nposts + Len(outbox) = nenq)

\* The poster is posting a later item after a failed POST, with more queued.
C9_Witness ==
  /\ perr
  /\ ppc = "post"
  /\ pitem.seq >= 2
  /\ outbox # <<>>

\* C10: a bucket holds exactly the values added in its stored window, in
\* order, and Count, Sum, Max and Min are those of these values.  (The wall
\* clock does not go back, so a window does not come again.)
C10_BucketHoldsWindow ==
  /\ DOMAIN Buffer = DOMAIN cur
  /\ \A k \in DOMAIN Buffer :
       LET b == Buffer[k]
           vs == cur[k].vals
       IN /\ b.Id.Time = cur[k].win
          /\ b.Vals = vs
          /\ Count(b) = Len(vs)
          /\ Sum(b) = SumSeq(vs)
          /\ \A i \in DOMAIN vs : Min(b) <= vs[i] /\ vs[i] <= Max(b)
          /\ Max(b) \in Range(vs) /\ Min(b) \in Range(vs)

\* A bucket that rolled over and then took two different values.
C10_Witness ==
  \E k \in DOMAIN Buffer :
    /\ DOMAIN Buffer = {k}
    /\ ncalls = 3
    /\ Buffer[k].Id.Time >= FlushInterval
    /\ Count(Buffer[k]) = 2
    /\ Max(Buffer[k]) # Min(Buffer[k])

---------------------------------------------------------------------------
(***************************************************************************)
(* Properties of the auth resolver.                                        *)
(***************************************************************************)
\* The header passed the three checks: ParseAuth has split the payload.
PassedChecks == parts # <<>>

JustAUser == Str(<<"j", "u", "s", "t", "a", "u", "s", "e", "r">>)

\* What the priority order gives for the decoded payload up.
ByPriority(up, ok) ==
  LET p == Split(up, Colon)
      t == VerifyAndDecrypt(up, ok)
      d == Split(DecodeString(p[1]).bytes, Colon)
  IN  IF p[1] = Sentinel /\ Len(p) >= 2 /\ Len(p[2]) > 0
      THEN [scheme |-> "sentinel", user |-> p[1], pass |-> p[2]]
      ELSE IF t # Nil
      THEN [scheme |-> "token", user |-> Split(t, Colon)[1],
            pass |-> IF Len(Split(t, Colon)) > 1 THEN Split(t, Colon)[2]
                     ELSE <<>>]
      ELSE IF p[1] # <<>>
      THEN [scheme |-> "inline", user |-> d[1],
            pass |-> IF Len(d) > 1 THEN d[2] ELSE <<>>]
      ELSE [scheme |-> "inline", user |-> <<>>, pass |-> <<>>]

\* The resolver returned what the priority order gives, and called the
\* token verification only when the sentinel scheme did not apply.
ReturnsByPriority ==
  (apc = "return" /\ PassedChecks) =>
    LET r == ByPriority(userPass, keysOk)
    IN  /\ ruser = r.user
        /\ rpass = r.pass
        /\ verified <=> r.scheme # "sentinel"

\* C11: a header that passes the three checks makes the resolver return a
\* pair with no error and no crash, the payload "justauser" giving
\* ("justauser", "").
C11_LenientResolver ==
  /\ apc # "panic"
  /\ (apc = "return" /\ PassedChecks) => err = ErrNil
  /\ (apc = "return" /\ userPass = JustAUser) =>
       (ruser = JustAUser /\ rpass = <<>>)

\* C12: on every payload the resolver applies the sentinel scheme, then the
\* token scheme, then the inline scheme, and returns the pair of the first
\* that applies.
C12_PriorityOrder ==
  /\ PassedChecks => apc # "panic"
  /\ ReturnsByPriority

\* The metrics that are on the outbox or with the poster.
InFlight ==
  {outbox[i].m : i \in DOMAIN outbox}
    \cup (IF ppc = "post" THEN {pitem.m} ELSE {})

\* C17: whenever the mutex is free every bucket of the buffer holds at
\* least one value, and every metric put on the outbox has Count >= 1.
C17_NoEmptyBucket ==
  /\ mu = NoHolder => \A k \in DOMAIN Buffer : Len(Buffer[k].Vals) >= 1
  /\ fpc = "send" => \A k \in DOMAIN Buffer : Len(Buffer[k].Vals) >= 1
  /\ \A m \in InFlight : m.Count >= 1

\* The flush has emitted the metric of a bucket that rolled over to a later
\* window and holds the one value added since.
C17_Witness ==
  /\ fpc = "send"
  /\ \E i \in DOMAIN outbox :
       /\ outbox[i].m.Time >= FlushInterval
       /\ outbox[i].m.Count = 1
       /\ lost > 0

\* C20: no step removes a key of the buffer; a flush that ends has emitted
\* one metric for every key ever added to; and a metric emitted for the
\* key and window of the key's previous emission has a Count at least as
\* large.
C20_KeysGrowCountsGrow ==
  /\ [](DOMAIN Buffer = DOMAIN cur)
  /\ [][/\ DOMAIN Buffer \subseteq DOMAIN Buffer'
        /\ (fpc = "send" /\ fpc' = "wait")
             => /\ Range(fsent) = DOMAIN cur
                /\ Len(fsent) = Cardinality(DOMAIN cur)
        /\ nenq' # nenq =>
             LET m == outbox'[Len(outbox')].m
                 k == KeyOf(m)
             IN  /\ k \in DOMAIN Buffer
                 /\ emitted'[k].t = m.Time /\ emitted'[k].n = m.Count
                 /\ (k \in DOMAIN emitted /\ emitted[k].t = m.Time)
                      => m.Count >= emitted[k].n]_vars

\* A key was emitted again for the window of its previous emission, with
\* no observation in between, while another key exists.
C20_Witness ==
  \E k \in DOMAIN emitted :
    /\ emitted[k].again
    /\ unflushed[k] = 0
    /\ Cardinality(DOMAIN Buffer) = 2

\* A step of an add, of the flush or of the poster can be taken.
CanStep ==
  \/ ENABLED AddLock(1)
  \/ ENABLED AddBody(1)
  \/ ENABLED FlushLock
  \/ ENABLED FlushSend
  \/ ENABLED FlushUnlock
  \/ ENABLED PosterRecv
  \/ ENABLED PosterPost

\* The flush holds the mutex and waits on the full outbox.
FlushBlocked == fpc = "send" /\ ftodo # {} /\ Len(outbox) = OutboxCap

\* C19: whenever an add or the flush is waiting some goroutine can take a
\* step; when the flush waits on the full outbox it is the poster, which
\* never waits for the mutex; and every add that waits for the mutex
\* completes.
C19_DeadlockFree ==
  /\ []((cpc[1] = "lock" \/ fpc \in {"lock", "send"}) => CanStep)
  /\ [](FlushBlocked => (ENABLED PosterRecv \/ ENABLED PosterPost))
  /\ (cpc[1] = "lock") ~> (cpc[1] = "idle")

\* An add waits for the mutex that the flush holds while the flush waits
\* on the full outbox.
C19_Witness == cpc[1] = "lock" /\ FlushBlocked

============================================================================
